---- MODULE Spec2Model ----
(***************************************************************************)
(* A model of star-lamp.py: the catalog parser (process_ybsc), the star    *)
(* filter (visible_bright_stars), the constellation parser and filter      *)
(* (constellation_stick_figures), the stick geometry (make_sticks) and the *)
(* pipeline of main.                                                       *)
(*                                                                         *)
(* Text is a sequence of one-character strings.  Decimal numbers read from *)
(* text are kept as integers in hundredths.                                *)
(***************************************************************************)
EXTENDS Integers, Sequences, FiniteSets, TLC

VARIABLES
    pc,               \* where the modelled function is
    file,             \* the lines of the input file being read
    ln,               \* index of the next line of file
    stars,            \* dict hd -> [RA, DEC, mag], in insertion order
    keys,             \* sorted(stars.keys())
    magnitude,        \* the magnitude threshold (hundredths)
    altitude_cutoff,  \* the altitude cutoff (degrees)
    radius,           \* the size scale handed to visible_bright_stars
    sky,              \* the AltAz transform of this run: (ra, dec) -> (az, alt)
    bright_stars,     \* the list visible_bright_stars returns
    const_name,       \* constellation_stick_figures: names of the parsed lines
    const_location,   \* constellation_stick_figures: (ra1, dec1, ra2, dec2) of them
    stick_figures,    \* the dict constellation_stick_figures returns
    i_shell,          \* make_stick_figures: the polygons added to the shell
    location,         \* main: the --location string, split at ":"
    disk,             \* main: the lines of the two input files
    readable,         \* main: which input files and directories can be opened
    written,          \* the files written so far, in order
    scad              \* make_lamp_scad: what is rendered to the output file

vars == <<pc, file, ln, stars, keys, magnitude, altitude_cutoff, radius, sky,
          bright_stars, const_name, const_location, stick_figures, i_shell,
          location, disk, readable, written, scad>>

(***************************************************************************)
(* Bounds of the model.                                                    *)
(***************************************************************************)
MaxLines == 3       \* lines of an input file
MaxStars == 3       \* entries of a star mapping handed to visible_bright_stars

(***************************************************************************)
(* Text helpers.                                                           *)
(***************************************************************************)
Digits == <<"0", "1", "2", "3", "4", "5", "6", "7", "8", "9">>

IsDigit(c) == \E i \in 1..Len(Digits) : Digits[i] = c

DigitVal(c) == (CHOOSE i \in 1..Len(Digits) : Digits[i] = c) - 1

IsSpace(c) == c \in {" ", "\n"}

Pad(n) == [i \in 1..n |-> " "]

Min(a, b) == IF a < b THEN a ELSE b

\* Python's s[a:b] for 0 <= a <= b.
Slice(s, a, b) == SubSeq(s, a + 1, Min(b, Len(s)))

RECURSIVE LStrip(_)
LStrip(s) == IF s # <<>> /\ IsSpace(Head(s)) THEN LStrip(Tail(s)) ELSE s

RECURSIVE RStrip(_)
RStrip(s) ==
    IF s # <<>> /\ IsSpace(s[Len(s)]) THEN RStrip(SubSeq(s, 1, Len(s) - 1)) ELSE s

Strip(s) == RStrip(LStrip(s))

AllDigits(s) == \A i \in 1..Len(s) : IsDigit(s[i])

RECURSIVE DigitsValTo(_, _)
\* The number the first n digits of s write.
DigitsValTo(s, n) ==
    IF n = 0 THEN 0 ELSE 10 * DigitsValTo(s, n - 1) + DigitVal(s[n])

DigitsVal(s) == DigitsValTo(s, Len(s))

Unsigned(s) == IF s # <<>> /\ s[1] \in {"-", "+"} THEN Tail(s) ELSE s

SignOf(s) == IF s # <<>> /\ s[1] = "-" THEN -1 ELSE 1

\* The position of the first "." of s, or 0.
DotAt(s) ==
    IF \E i \in 1..Len(s) : s[i] = "."
    THEN CHOOSE i \in 1..Len(s) : s[i] = "." /\ \A j \in 1..(i - 1) : s[j] # "."
    ELSE 0

ValueError == [ok |-> FALSE, val |-> 0]

\* int(s) of a text t that holds no surrounding whitespace.
ParseIntStripped(t) ==
    IF Unsigned(t) # <<>> /\ AllDigits(Unsigned(t))
    THEN [ok |-> TRUE, val |-> SignOf(t) * DigitsVal(Unsigned(t))]
    ELSE ValueError

\* Python's int(s): surrounding whitespace, an optional sign, digits.  (The
\* set {e(t) : t \in {x}} has one element, e of the value of x.)
ParseInt(s) == CHOOSE r \in {ParseIntStripped(t) : t \in {Strip(s)}} : TRUE

\* The first two decimals of a digit string, as hundredths.
Hundredths(f) ==
    IF f = <<>> THEN 0
    ELSE IF Len(f) = 1 THEN 10 * DigitVal(f[1])
    ELSE 10 * DigitVal(f[1]) + DigitVal(f[2])

\* float(s) of a text with this sign, whose unsigned part t has its first "."
\* at d (0: none).
ParseFloatUnsigned(sign, t, d) ==
    LET ip == IF d = 0 THEN t ELSE SubSeq(t, 1, d - 1)
        fp == IF d = 0 THEN <<>> ELSE SubSeq(t, d + 1, Len(t))
    IN  IF AllDigits(ip) /\ AllDigits(fp) /\ (ip # <<>> \/ fp # <<>>)
        THEN [ok |-> TRUE, val |-> sign * (100 * DigitsVal(ip) + Hundredths(fp))]
        ELSE ValueError

\* Python's float(s) on text without exponent: surrounding whitespace, an
\* optional sign, then digits, digits "." [digits] or "." digits.  The value is
\* in hundredths.
ParseFloat(s) ==
    CHOOSE r \in {ParseFloatUnsigned(sign, t, d) :
                    sign \in {SignOf(Strip(s))},
                    t \in {Unsigned(Strip(s))},
                    d \in {DotAt(Unsigned(Strip(s)))}} : TRUE

(***************************************************************************)
(* A dict keeps its keys in insertion order; assigning to a key that is   *)
(* present replaces its value in place.                                    *)
(***************************************************************************)
DictKeys(d) == [i \in 1..Len(d) |-> d[i][1]]

DictHas(d, k) == \E dv \in {d}, kv \in {k} : \E i \in 1..Len(dv) : dv[i][1] = kv

DictGet(d, k) ==
    CHOOSE r \in {dv[CHOOSE i \in 1..Len(dv) : dv[i][1] = kv][2] :
                    dv \in {d}, kv \in {k}} : TRUE

DictSet(d, k, v) ==
    CHOOSE r \in {IF DictHas(dv, kv)
                  THEN [i \in 1..Len(dv) |-> IF dv[i][1] = kv THEN <<kv, vv>> ELSE dv[i]]
                  ELSE Append(dv, <<kv, vv>>) :
                    dv \in {d}, kv \in {k}, vv \in {v}} : TRUE

RECURSIVE Insert(_, _)
Insert(x, s) ==
    IF s = <<>> THEN <<x>>
    ELSE IF x <= Head(s) THEN <<x>> \o s
    ELSE <<Head(s)>> \o Insert(x, Tail(s))

RECURSIVE SortedList(_)
SortedList(s) ==
    IF s = <<>> THEN <<>>
    ELSE CHOOSE r \in {Insert(Head(s), t) : t \in {SortedList(Tail(s))}} : TRUE

\* Python's sorted(s) on a list of integers.
sorted(s) == SortedList(s)

Range(s) == {s[i] : i \in 1..Len(s)}

\* All sequences over S of length 0..n.
SeqsUpTo(S, n) == UNION {[1..k -> S] : k \in 0..n}

(***************************************************************************)
(* process_ybsc                                                            *)
(***************************************************************************)
YbscFieldsOf(l) ==
    [hd      |-> ParseInt(Slice(l, 25, 31)),
     ra_hrs  |-> ParseFloat(Slice(l, 75, 77)),
     ra_min  |-> ParseFloat(Slice(l, 77, 79)),
     ra_sec  |-> ParseFloat(Slice(l, 79, 82)),
     dec_neg |-> l[84] = "-",
     dec_deg |-> ParseFloat(Slice(l, 84, 86)),
     dec_min |-> ParseFloat(Slice(l, 86, 88)),
     dec_sec |-> ParseFloat(Slice(l, 88, 90)),
     mag     |-> ParseFloat(Slice(l, 102, 107))]

\* The fields process_ybsc reads inside its try block.
YbscFields(line) == CHOOSE r \in {YbscFieldsOf(l) : l \in {line}} : TRUE

\* if len(line) < 100: continue
YbscShort(line) == Len(line) < 100

\* Only the identifier is checked.
YbscRaisesIdOnly(line) == ~ YbscFields(line).hd.ok

\* Whether the try block raises ValueError on a line that is long enough.
YbscRaises(line) ==
    \E f \in {YbscFields(line)} :
        \E x \in {f.hd, f.ra_hrs, f.ra_min, f.ra_sec,
                  f.dec_deg, f.dec_min, f.dec_sec, f.mag} : ~ x.ok

\* [RA, DEC, mag] from the fields f.
YbscRecordOf(f) ==
    LET RA == 3600 * f.ra_hrs.val + 60 * f.ra_min.val + f.ra_sec.val
        DEC == 3600 * f.dec_deg.val + 60 * f.dec_min.val + f.dec_sec.val
    IN  <<RA, IF f.dec_neg THEN -DEC ELSE DEC, f.mag.val>>

\* [RA, DEC, mag] of a line whose fields parse.  RA is in 1/24000 degree
\* ((h + m/60 + s/3600) / 24 * 360 = (3600 h + 60 m + s) / 240), DEC in
\* 1/360000 degree, negated after it is summed; mag in hundredths.
YbscRecord(line) == CHOOSE r \in {YbscRecordOf(f) : f \in {YbscFields(line)}} : TRUE

\* A duplicate identifier keeps its first record.
YbscStoreFirstWins(d, line) ==
    IF DictHas(d, YbscFields(line).hd.val) THEN d
    ELSE Append(d, <<YbscFields(line).hd.val, YbscRecord(line)>>)

\* stars[hd] = [RA, DEC, mag]
YbscStore(d, line) == DictSet(d, YbscFields(line).hd.val, YbscRecord(line))

\* One iteration of the loop over the lines of the catalog.
YbscStep(d, line) ==
    IF YbscShort(line) THEN d
    ELSE IF YbscRaises(line) THEN d
    ELSE YbscStore(d, line)

RECURSIVE YbscLoop(_, _)
\* The mapping after the loop over these lines, from the mapping d.
YbscLoop(d, lines) ==
    IF lines = <<>> THEN d
    ELSE CHOOSE r \in {YbscLoop(d2, Tail(lines)) :
                        d2 \in {YbscStep(d, Head(lines))}} : TRUE

\* process_ybsc(filename) on a file with these lines: (stars, keys).
process_ybsc(lines) ==
    CHOOSE r \in {[stars |-> d, keys |-> sorted(DictKeys(d))] :
                    d \in {YbscLoop(<<>>, lines)}} : TRUE

(***************************************************************************)
(* visible_bright_stars                                                    *)
(***************************************************************************)
\* new_keys = [k for k in keys if stars[k][2] < magnitude]
BrightKeys(d, ks, threshold) ==
    LET Bright(k) == DictGet(d, k)[3] < threshold IN SelectSeq(ks, Bright)

\* SkyCoord(...).transform_to(AltAz(...)) on the stars of new_keys, element
\* by element: <<az, alt>> of each.
TransformKeys(d, new_keys, altaz) ==
    [i \in 1..Len(new_keys) |->
        altaz[<<DictGet(d, new_keys[i])[1], DictGet(d, new_keys[i])[2]>>]]

RadInverted(threshold, m, size) == <<(m + 100) * size, threshold>>

\* (magnitude + 1 - m) * radius / magnitude, as the exact fraction
\* <<numerator, denominator>>; magnitudes are in hundredths.
Rad(threshold, m, size) == <<(threshold + 100 - m) * size, threshold>>

\* The division of Rad raises ZeroDivisionError when the threshold is 0.0
\* and the list of bright stars is not empty.
VbsRaises(d, ks, threshold) == threshold = 0 /\ BrightKeys(d, ks, threshold) # <<>>

AboveInclusive(alt, cutoff) == alt >= cutoff

\* if alt > altitude_cutoff
Above(alt, cutoff) == alt > cutoff

StarTupleShifted(d, new_keys, azalt, threshold, size, i) ==
    <<new_keys[i], azalt[1][1], azalt[i][2],
      DictGet(d, new_keys[i])[3],
      Rad(threshold, DictGet(d, new_keys[i])[3], size)>>

\* (new_keys[i], azimuth[i], alt, mag[i], rad[i])
StarTuple(d, new_keys, azalt, threshold, size, i) ==
    <<new_keys[i], azalt[i][1], azalt[i][2],
      DictGet(d, new_keys[i])[3],
      Rad(threshold, DictGet(d, new_keys[i])[3], size)>>

\* The list visible_bright_stars returns when it does not raise.
visible_bright_stars(d, ks, altaz, cutoff, threshold, size) ==
    LET new_keys == BrightKeys(d, ks, threshold)
        azalt == TransformKeys(d, new_keys, altaz)
        Visible(i) == Above(azalt[i][2], cutoff)
        idx == SelectSeq([i \in 1..Len(new_keys) |-> i], Visible)
    IN  [j \in 1..Len(idx) |->
            StarTuple(d, new_keys, azalt, threshold, size, idx[j])]

\* Comparison of two fractions <<n, d>> with d # 0.
FracLess(a, b) ==
    LET an == IF a[2] < 0 THEN -a[1] ELSE a[1]
        ad == IF a[2] < 0 THEN -a[2] ELSE a[2]
        bn == IF b[2] < 0 THEN -b[1] ELSE b[1]
        bd == IF b[2] < 0 THEN -b[2] ELSE b[2]
    IN  an * bd < bn * ad

(***************************************************************************)
(* Inputs of the catalog parser: lines in the fixed-width layout of the    *)
(* bright star catalog, some of them malformed.                            *)
(***************************************************************************)
CatalogLine(hd, hh, mm, ss, sg, dd, dm, ds, mag) ==
    Pad(25) \o hd \o Pad(44) \o hh \o mm \o ss \o <<"0">> \o sg \o dd \o dm \o ds
        \o Pad(12) \o mag \o <<"\n">>

Star1 == CatalogLine(<<" ", " ", " ", " ", " ", "1">>, <<"0", "1">>, <<"3", "0">>,
                     <<"1", "5", ".">>, <<"+">>, <<"1", "0">>, <<"2", "0">>,
                     <<"3", "0">>, <<" ", "1", ".", "0", "0">>)
Star2 == CatalogLine(<<" ", " ", " ", " ", " ", "2">>, <<"0", "2">>, <<"0", "0">>,
                     <<"0", "0", ".">>, <<"-">>, <<"0", "0">>, <<"3", "0">>,
                     <<"0", "0">>, <<" ", "4", ".", "9", "0">>)
Star1Again == CatalogLine(<<" ", " ", " ", " ", " ", "1">>, <<"2", "3">>, <<"0", "0">>,
                     <<"0", "0", ".">>, <<"-">>, <<"8", "9">>, <<"0", "0">>,
                     <<"0", "0">>, <<"-", "1", ".", "4", "6">>)
NoMagnitude == CatalogLine(<<" ", " ", " ", " ", " ", "3">>, <<"0", "1">>, <<"0", "0">>,
                     <<"0", "0", ".">>, <<"+">>, <<"1", "0">>, <<"0", "0">>,
                     <<"0", "0">>, <<" ", " ", " ", " ", " ">>)
NoIdentifier == CatalogLine(<<" ", " ", " ", " ", " ", " ">>, <<"0", "1">>, <<"0", "0">>,
                     <<"0", "0", ".">>, <<"+">>, <<"1", "0">>, <<"0", "0">>,
                     <<"0", "0">>, <<" ", "2", ".", "0", "0">>)
BadDeclination == CatalogLine(<<" ", " ", " ", " ", " ", "4">>, <<"0", "1">>, <<"0", "0">>,
                     <<"0", "0", ".">>, <<"+">>, <<"1", "0">>, <<"x", "x">>,
                     <<"0", "0">>, <<" ", "2", ".", "0", "0">>)
\* Star2 cut after 60 and after 99 characters, and a line of exactly 100.
Short60 == SubSeq(Star2, 1, 60)
Short99 == SubSeq(Star2, 1, 99)
Just100 == SubSeq(Star2, 1, 100)

CatalogLines ==
    {Star1, Star2, Star1Again, NoMagnitude, NoIdentifier, BadDeclination,
     Short60, Short99, Just100}

(***************************************************************************)
(* Specification of process_ybsc, one line of the file at a time.          *)
(***************************************************************************)
Idle ==
    /\ magnitude = 0 /\ altitude_cutoff = 0 /\ radius = 0
    /\ sky = <<>> /\ bright_stars = <<>>
    /\ const_name = <<>> /\ const_location = <<>> /\ stick_figures = <<>>
    /\ i_shell = <<>>
    /\ location = <<>> /\ disk = <<>> /\ readable = {} /\ written = <<>>
    /\ scad = <<>>

InitCatalog ==
    /\ pc = "ybsc"
    /\ file \in SeqsUpTo(CatalogLines, MaxLines)
    /\ ln = 1
    /\ stars = <<>>
    /\ keys = <<>>
    /\ Idle

YbscUnchanged ==
    UNCHANGED <<file, magnitude, altitude_cutoff, radius, sky, bright_stars,
                const_name, const_location, stick_figures, i_shell,
                location, disk, readable, written, scad>>

YbscSkipShort ==
    /\ pc = "ybsc" /\ ln <= Len(file)
    /\ YbscShort(file[ln])
    /\ stars' = YbscStep(stars, file[ln])
    /\ ln' = ln + 1
    /\ UNCHANGED <<pc, keys>> /\ YbscUnchanged

YbscSkipValueError ==
    /\ pc = "ybsc" /\ ln <= Len(file)
    /\ ~ YbscShort(file[ln]) /\ YbscRaises(file[ln])
    /\ stars' = YbscStep(stars, file[ln])
    /\ ln' = ln + 1
    /\ UNCHANGED <<pc, keys>> /\ YbscUnchanged

YbscAssign ==
    /\ pc = "ybsc" /\ ln <= Len(file)
    /\ ~ YbscShort(file[ln]) /\ ~ YbscRaises(file[ln])
    /\ stars' = YbscStep(stars, file[ln])
    /\ ln' = ln + 1
    /\ UNCHANGED <<pc, keys>> /\ YbscUnchanged

YbscReturn ==
    /\ pc = "ybsc" /\ ln > Len(file)
    /\ keys' = sorted(DictKeys(stars))
    /\ pc' = "done"
    /\ UNCHANGED <<ln, stars>> /\ YbscUnchanged

NextCatalog == YbscSkipShort \/ YbscSkipValueError \/ YbscAssign \/ YbscReturn

SpecCatalog == InitCatalog /\ [][NextCatalog]_vars

(***************************************************************************)
(* Properties of process_ybsc.                                             *)
(***************************************************************************)
\* The slices of a catalog line that must be numbers, by their offsets.
NumericFieldsParse(line) ==
    /\ ParseInt(Slice(line, 25, 31)).ok
    /\ \A f \in {<<75, 77>>, <<77, 79>>, <<79, 82>>, <<84, 86>>, <<86, 88>>,
                 <<88, 90>>, <<102, 107>>} : ParseFloat(Slice(line, f[1], f[2])).ok

Malformed(line) == Len(line) < 100 \/ ~ NumericFieldsParse(line)

WellFormed(line) == ~ Malformed(line)

LineId(line) == ParseInt(Slice(line, 25, 31)).val

\* C5: a catalog line that is shorter than 100 characters, or in which a
\* numeric field does not parse, leaves the mapping as it was and raises
\* nothing, and the loop goes on to the next line; the mapping returned is the
\* one the well-formed lines alone would give.
C5_MalformedLineSkipped ==
    [][/\ (pc = "ybsc" /\ ln <= Len(file) /\ Malformed(file[ln]))
            => (stars' = stars /\ pc' = "ybsc" /\ ln' = ln + 1)
       /\ pc' = "done" => stars' = YbscLoop(<<>>, SelectSeq(file, WellFormed))]_vars

C5_Witness ==
    /\ pc = "done"
    /\ \E i, j, k \in 1..Len(file) :
        /\ i < j /\ j < k
        /\ Len(file[i]) < 100
        /\ Len(file[j]) >= 100 /\ Malformed(file[j])
        /\ WellFormed(file[k]) /\ DictHas(stars, LineId(file[k]))

\* C6: each identifier maps to the record of the last well-formed line that
\* carries it, and the key list is strictly ascending and holds exactly the
\* identifiers of the mapping.
C6_LastWinsSortedKeys ==
    pc = "done" =>
        /\ \A i \in 1..Len(file) :
            (WellFormed(file[i])
                /\ \A j \in (i + 1)..Len(file) :
                    WellFormed(file[j]) => LineId(file[j]) # LineId(file[i]))
            => /\ DictHas(stars, LineId(file[i]))
               /\ DictGet(stars, LineId(file[i])) = YbscRecord(file[i])
        /\ \A k \in Range(DictKeys(stars)) :
            \E i \in 1..Len(file) : WellFormed(file[i]) /\ LineId(file[i]) = k
        /\ \A i \in 1..(Len(keys) - 1) : keys[i] < keys[i + 1]
        /\ Range(keys) = Range(DictKeys(stars))
        /\ Len(DictKeys(stars)) = Cardinality(Range(DictKeys(stars)))

C6_Witness ==
    /\ pc = "done"
    /\ \E i, j \in 1..Len(file) :
        /\ i < j /\ WellFormed(file[i]) /\ WellFormed(file[j])
        /\ LineId(file[i]) = LineId(file[j])
        /\ YbscRecord(file[i]) # YbscRecord(file[j])
    /\ Len(keys) = 2
    /\ keys # DictKeys(stars)

(***************************************************************************)
(* Specification of visible_bright_stars on a star mapping as process_ybsc *)
(* returns it.                                                             *)
(***************************************************************************)
Magnitudes == {-200, -100, 100, 490, 600}
Thresholds == {-50, 0, 500}
Altitudes == {-10, 0, 90}
Cutoffs == {-10, 0}
SizeScales == {2}

\* The coordinates given to star k of a synthetic catalog.
CoordOf(k) == <<90 * k, 0>>

InitStars ==
    /\ pc = "vbs"
    /\ \E n \in 0..MaxStars : \E mags \in [1..n -> Magnitudes] :
        /\ stars = [k \in 1..n |-> <<k, <<CoordOf(k)[1], CoordOf(k)[2], mags[k]>>>>]
        /\ keys = sorted(DictKeys(stars))
        /\ \E alts \in [1..n -> Altitudes] :
            sky = [c \in {CoordOf(k) : k \in 1..n} |->
                    <<c[1] % 360, alts[c[1] \div 90]>>]
    /\ magnitude \in Thresholds
    /\ altitude_cutoff \in Cutoffs
    /\ radius \in SizeScales
    /\ bright_stars = <<>>
    /\ file = <<>> /\ ln = 0
    /\ const_name = <<>> /\ const_location = <<>> /\ stick_figures = <<>>
    /\ i_shell = <<>>
    /\ location = <<>> /\ disk = <<>> /\ readable = {} /\ written = <<>>
    /\ scad = <<>>

VbsUnchanged ==
    UNCHANGED <<file, ln, stars, keys, magnitude, altitude_cutoff, radius, sky,
                const_name, const_location, stick_figures, i_shell,
                location, disk, readable, scad>>

\* rad = [... / magnitude ...] raises before any file is written.
VbsZeroDivisionError ==
    /\ pc = "vbs"
    /\ VbsRaises(stars, keys, magnitude)
    /\ pc' = "ZeroDivisionError"
    /\ UNCHANGED <<bright_stars, written>> /\ VbsUnchanged

VbsReturn ==
    /\ pc = "vbs"
    /\ ~ VbsRaises(stars, keys, magnitude)
    /\ bright_stars' =
        visible_bright_stars(stars, keys, sky, altitude_cutoff, magnitude, radius)
    /\ written' = written \o <<"bright-stars-raw-data.csv", "bright-stars.csv">>
    /\ pc' = "done"
    /\ VbsUnchanged

NextStars == VbsZeroDivisionError \/ VbsReturn

SpecStars == InitStars /\ [][NextStars]_vars

(***************************************************************************)
(* Properties of visible_bright_stars.                                     *)
(***************************************************************************)
MagOf(k) == DictGet(stars, k)[3]

AltOf(k) == sky[<<DictGet(stars, k)[1], DictGet(stars, k)[2]>>][2]

AzOf(k) == sky[<<DictGet(stars, k)[1], DictGet(stars, k)[2]>>][1]

ReturnedIds == {bright_stars[i][1] : i \in 1..Len(bright_stars)}

BrightAndVisible ==
    {k \in Range(keys) : MagOf(k) < magnitude /\ AltOf(k) > altitude_cutoff}

\* C1: once visible_bright_stars has run, for every threshold and cutoff, it
\* has returned exactly the identifiers whose magnitude is strictly below the
\* threshold and whose altitude is strictly above the cutoff.
C1_ExactlyBrightAndVisible ==
    pc # "vbs" => (pc = "done" /\ ReturnedIds = BrightAndVisible)

\* C1, as far as the code goes: whenever visible_bright_stars returns, it
\* returns exactly those identifiers.
C1_ExactWhenItReturns == pc = "done" => ReturnedIds = BrightAndVisible

RECURSIVE IsSubseq(_, _)
IsSubseq(a, b) ==
    IF a = <<>> THEN TRUE
    ELSE IF b = <<>> THEN FALSE
    ELSE IF Head(a) = Head(b) THEN IsSubseq(Tail(a), Tail(b))
    ELSE IsSubseq(a, Tail(b))

\* The scenario of C3: magnitudes 1.0, 4.9 and 6.0, threshold 5.0, cutoff 0,
\* the first star at the zenith.
C3_Scenario ==
    /\ pc = "done" /\ Len(stars) = 3
    /\ MagOf(1) = 100 /\ MagOf(2) = 490 /\ MagOf(3) = 600
    /\ magnitude = 500 /\ altitude_cutoff = 0
    /\ AltOf(1) = 90

RadOfReturned(k) ==
    bright_stars[CHOOSE i \in 1..Len(bright_stars) : bright_stars[i][1] = k][5]

\* C3 as the specification states it: with the second star exactly at the
\* cutoff, the first two stars are returned and the first has the larger
\* radius.
C3_RoundTripAtCutoff ==
    (C3_Scenario /\ AltOf(2) = altitude_cutoff) =>
        /\ ReturnedIds = {1, 2}
        /\ FracLess(RadOfReturned(2), RadOfReturned(1))

\* C3, amended: with the second star exactly at the cutoff only the first star
\* is returned; with the second star strictly above the cutoff the first two
\* are returned, in this order, and the first has the strictly larger radius.
C3_RoundTripStrict ==
    /\ (C3_Scenario /\ AltOf(2) = altitude_cutoff) =>
        [i \in 1..Len(bright_stars) |-> bright_stars[i][1]] = <<1>>
    /\ (C3_Scenario /\ AltOf(2) > altitude_cutoff) =>
        /\ [i \in 1..Len(bright_stars) |-> bright_stars[i][1]] = <<1, 2>>
        /\ FracLess(RadOfReturned(2), RadOfReturned(1))

C3_Witness == C3_Scenario /\ AltOf(2) = altitude_cutoff /\ Len(bright_stars) = 1

\* C7: the returned list follows the order of the input keys, holds each
\* identifier at most once, and each tuple carries the azimuth, altitude,
\* magnitude and radius of its own identifier.
C7_OrderedAndAligned ==
    pc = "done" =>
        /\ IsSubseq([i \in 1..Len(bright_stars) |-> bright_stars[i][1]], keys)
        /\ Cardinality(ReturnedIds) = Len(bright_stars)
        /\ \A i \in 1..Len(bright_stars) :
            LET k == bright_stars[i][1]
            IN  bright_stars[i] =
                    <<k, AzOf(k), AltOf(k), MagOf(k),
                      <<(magnitude + 100 - MagOf(k)) * radius, magnitude>>>>

C7_Witness ==
    /\ pc = "done"
    /\ Len(keys) = 3
    /\ [i \in 1..Len(bright_stars) |-> bright_stars[i][1]] = <<1, 3>>
    /\ AltOf(1) # AltOf(3) /\ MagOf(1) # MagOf(3)
    /\ MagOf(2) < magnitude

BrighterIsLarger ==
    \A i, j \in 1..Len(bright_stars) :
        bright_stars[i][4] < bright_stars[j][4]
            => FracLess(bright_stars[j][5], bright_stars[i][5])

Ascii == <<"\n", " ", "#", "+", "-", ".", "0", "1", "2", "3", "4", "5", "6", "7",
           "8", "9", "C", "M", "O", "U", "_", "a", "e", "i", "n", "r", "x">>

Ord(c) == CHOOSE i \in 1..Len(Ascii) : Ascii[i] = c

\* \w: a letter, a digit or the underscore.
IsWordChar(c) == Ord(c) >= Ord("0")

RECURSIVE StrLeq(_, _)
StrLeq(a, b) ==
    IF a = <<>> THEN TRUE
    ELSE IF b = <<>> THEN FALSE
    ELSE IF Head(a) = Head(b) THEN StrLeq(Tail(a), Tail(b))
    ELSE Ord(Head(a)) < Ord(Head(b))

RECURSIVE InsertName(_, _)
InsertName(x, s) ==
    IF s = <<>> THEN <<x>>
    ELSE IF StrLeq(x, Head(s)) THEN <<x>> \o s
    ELSE <<Head(s)>> \o InsertName(x, Tail(s))

RECURSIVE SortedNames(_)
\* Python's sorted(s) on a list of strings.
SortedNames(s) == IF s = <<>> THEN <<>> ELSE InsertName(Head(s), SortedNames(Tail(s)))

RECURSIVE Split(_)
\* The maximal runs of non-whitespace characters of s, in order.
Split(s) ==
    LET t == LStrip(s)
        n == IF \E i \in 1..Len(t) : IsSpace(t[i])
             THEN (CHOOSE i \in 1..Len(t) :
                      IsSpace(t[i]) /\ \A j \in 1..(i - 1) : ~ IsSpace(t[j])) - 1
             ELSE Len(t)
    IN  IF t = <<>> THEN <<>>
        ELSE <<SubSeq(t, 1, n)>> \o Split(SubSeq(t, n + 1, Len(t)))

\* (\w+)
IsWord(t) == t # <<>> /\ \A i \in 1..Len(t) : IsWordChar(t[i])

\* ([-]?\d+\.\d+)
IsDecimal(t) ==
    LET u == IF t # <<>> /\ t[1] = "-" THEN Tail(t) ELSE t
        d == DotAt(u)
    IN  /\ d > 1 /\ d < Len(u)
        /\ AllDigits(SubSeq(u, 1, d - 1))
        /\ AllDigits(SubSeq(u, d + 1, Len(u)))

\* Whether re_search finds the pattern in the line: the pattern is anchored at
\* both ends and its five groups hold no whitespace, so it matches exactly
\* the lines that split into a word and four decimals.
CsfMatches(line) ==
    LET t == Split(line)
    IN  Len(t) = 5 /\ IsWord(t[1]) /\ \A i \in 2..5 : IsDecimal(t[i])

\* if (line[0] == "#") or (len(line) < 10): continue
CsfSkipped(line) == line[1] = "#" \/ Len(line) < 10

\* cname of a matching line.
CsfName(line) == Split(line)[1]

\* (float(ra1), float(dec1), float(ra2), float(dec2)) of a matching line.
CsfLocation(line) ==
    LET t == Split(line)
    IN  <<ParseFloat(t[2]).val, ParseFloat(t[3]).val,
          ParseFloat(t[4]).val, ParseFloat(t[5]).val>>

\* (az1[i], alt1[i], az2[i], alt2[i]): the start points and the stop points
\* are transformed in two batches, element by element.
CsfTransform(locs, altaz) ==
    [i \in 1..Len(locs) |->
        <<altaz[<<locs[i][1], locs[i][2]>>][1], altaz[<<locs[i][1], locs[i][2]>>][2],
          altaz[<<locs[i][3], locs[i][4]>>][1], altaz[<<locs[i][3], locs[i][4]>>][2]>>]

RECURSIVE CsfGroup(_, _, _)
\* stick_figures_all[cname].append(...) over the parsed lines, from d.
CsfGroup(d, names, segs) ==
    IF names = <<>> THEN d
    ELSE CsfGroup(
            DictSet(d, Head(names),
                    (IF DictHas(d, Head(names)) THEN DictGet(d, Head(names)) ELSE <<>>)
                        \o <<Head(segs)>>),
            Tail(names), Tail(segs))

\* Either endpoint above the cutoff is enough.
CsfSegmentVisibleEither(seg, cutoff) == seg[2] >= cutoff \/ seg[4] >= cutoff

\* (e1 >= altitude_cutoff) and (e2 >= altitude_cutoff)
CsfSegmentVisible(seg, cutoff) == seg[2] >= cutoff /\ seg[4] >= cutoff

RECURSIVE CsfSaveFlag(_, _)
\* save_flag after the loop over the segments of one name, which stops at the
\* first segment that is not visible.
CsfSaveFlag(segs, cutoff) ==
    IF segs = <<>> THEN TRUE
    ELSE IF CsfSegmentVisible(Head(segs), cutoff) THEN CsfSaveFlag(Tail(segs), cutoff)
    ELSE FALSE

RECURSIVE CsfFilter(_, _, _, _)
\* stick_figures[cname] = stick_figures_all[cname] for the names, in sorted
\* order, whose save_flag is set.
CsfFilter(d, all, names, cutoff) ==
    IF names = <<>> THEN d
    ELSE CsfFilter(
            IF CsfSaveFlag(DictGet(all, Head(names)), cutoff)
            THEN DictSet(d, Head(names), DictGet(all, Head(names)))
            ELSE d,
            all, Tail(names), cutoff)

\* The dict constellation_stick_figures returns for the parsed lines.
CsfVisible(names, locs, altaz, cutoff) ==
    LET all == CsfGroup(<<>>, names, CsfTransform(locs, altaz))
    IN  CsfFilter(<<>>, all, SortedNames(DictKeys(all)), cutoff)

\* The files constellation_stick_figures writes after its loop.
CsfFiles ==
    <<"constellations-raw-data.csv", "constellations-all.csv",
      "constellations-visible.csv">>

(***************************************************************************)
(* Inputs of the constellation parser.                                     *)
(***************************************************************************)
Ori == <<"O", "r", "i">>
UMa == <<"U", "M", "a">>
Sp == <<" ">>
Nl == <<"\n">>
D1 == <<"1", ".", "0">>
D2 == <<"2", ".", "0">>
D3 == <<"3", ".", "0">>
D4 == <<"4", ".", "0">>
D5 == <<"5", ".", "0">>
D6m == <<"-", "6", ".", "0">>

OriPQ == Ori \o Sp \o D1 \o Sp \o D2 \o Sp \o D3 \o Sp \o D4 \o Nl
OriQR == Sp \o Ori \o Sp \o Sp \o D3 \o Sp \o D4 \o Sp \o D5 \o Sp \o D6m \o Sp \o Nl
UMaQP == UMa \o Sp \o D3 \o Sp \o D4 \o Sp \o D1 \o Sp \o D2 \o Nl
CommentLine == <<"#">> \o Sp \o Ori \o Sp \o D1 \o Sp \o D2 \o Sp \o D3 \o Sp \o D4 \o Nl
ShortLine == Ori \o Sp \o D1 \o Nl
ThreeNumbers == Ori \o Sp \o D1 \o Sp \o D2 \o Sp \o D3 \o Nl
IntegerNumbers ==
    UMa \o Sp \o <<"5">> \o Sp \o <<"-", "6">> \o Sp \o <<"1">> \o Sp \o <<"2">> \o Nl

ConstellationLines ==
    {OriPQ, OriQR, UMaQP, CommentLine, ShortLine, ThreeNumbers, IntegerNumbers}

\* The endpoints the lines above name.
ConstellationCoords == {<<100, 200>>, <<300, 400>>, <<500, -600>>}

(***************************************************************************)
(* Specification of constellation_stick_figures, one line of the file at a *)
(* time, then everything after the loop.                                   *)
(***************************************************************************)
InitConst ==
    /\ pc = "csf"
    /\ file \in SeqsUpTo(ConstellationLines, MaxLines)
    /\ ln = 1
    /\ \E alts \in [ConstellationCoords -> Altitudes] :
        sky = [c \in ConstellationCoords |-> <<c[1] % 360, alts[c]>>]
    /\ altitude_cutoff \in Cutoffs
    /\ const_name = <<>> /\ const_location = <<>> /\ stick_figures = <<>>
    /\ stars = <<>> /\ keys = <<>> /\ magnitude = 0 /\ radius = 0
    /\ bright_stars = <<>>
    /\ i_shell = <<>>
    /\ location = <<>> /\ disk = <<>> /\ readable = {} /\ written = <<>>
    /\ scad = <<>>

CsfUnchanged ==
    UNCHANGED <<file, stars, keys, magnitude, altitude_cutoff, radius, sky,
                bright_stars, i_shell, location, disk, readable, scad>>

CsfSkip ==
    /\ pc = "csf" /\ ln <= Len(file)
    /\ CsfSkipped(file[ln])
    /\ ln' = ln + 1
    /\ UNCHANGED <<pc, const_name, const_location, stick_figures, written>>
    /\ CsfUnchanged

CsfAppend ==
    /\ pc = "csf" /\ ln <= Len(file)
    /\ ~ CsfSkipped(file[ln]) /\ CsfMatches(file[ln])
    /\ const_name' = Append(const_name, CsfName(file[ln]))
    /\ const_location' = Append(const_location, CsfLocation(file[ln]))
    /\ ln' = ln + 1
    /\ UNCHANGED <<pc, stick_figures, written>>
    /\ CsfUnchanged

\* re_search returns None and None has no groups(): AttributeError, which
\* the except ValueError clause does not catch.
CsfAttributeError ==
    /\ pc = "csf" /\ ln <= Len(file)
    /\ ~ CsfSkipped(file[ln]) /\ ~ CsfMatches(file[ln])
    /\ pc' = "AttributeError"
    /\ UNCHANGED <<ln, const_name, const_location, stick_figures, written>>
    /\ CsfUnchanged

CsfReturn ==
    /\ pc = "csf" /\ ln > Len(file)
    /\ stick_figures' = CsfVisible(const_name, const_location, sky, altitude_cutoff)
    /\ written' = written \o CsfFiles
    /\ pc' = "done"
    /\ UNCHANGED <<ln, const_name, const_location>>
    /\ CsfUnchanged

NextConst == CsfSkip \/ CsfAppend \/ CsfAttributeError \/ CsfReturn

SpecConst == InitConst /\ [][NextConst]_vars

(***************************************************************************)
(* Properties of constellation_stick_figures.                              *)
(***************************************************************************)
\* The transformed segments parsed under a name, in file order.
SegmentsOf(name) ==
    LET Named(i) == const_name[i] = name
        idx == SelectSeq([i \in 1..Len(const_name) |-> i], Named)
    IN  [j \in 1..Len(idx) |->
            <<sky[<<const_location[idx[j]][1], const_location[idx[j]][2]>>][1],
              sky[<<const_location[idx[j]][1], const_location[idx[j]][2]>>][2],
              sky[<<const_location[idx[j]][3], const_location[idx[j]][4]>>][1],
              sky[<<const_location[idx[j]][3], const_location[idx[j]][4]>>][2]>>]

AllEndpointsUp(name) ==
    \A i \in 1..Len(SegmentsOf(name)) :
        /\ SegmentsOf(name)[i][2] >= altitude_cutoff
        /\ SegmentsOf(name)[i][4] >= altitude_cutoff

\* C2: a name is in the returned mapping exactly when every segment parsed
\* under it has both endpoint altitudes at or above the cutoff, and a name
\* that is in it carries all of its segments.
C2_WholeConstellationsOnly ==
    pc = "done" =>
        /\ Range(DictKeys(stick_figures)) \subseteq Range(const_name)
        /\ \A name \in Range(const_name) :
            /\ DictHas(stick_figures, name) <=> AllEndpointsUp(name)
            /\ DictHas(stick_figures, name) =>
                DictGet(stick_figures, name) = SegmentsOf(name)

C2_Witness ==
    /\ pc = "done"
    /\ Len(SegmentsOf(Ori)) = 2
    /\ SegmentsOf(Ori)[1][2] >= altitude_cutoff /\ SegmentsOf(Ori)[1][4] >= altitude_cutoff
    /\ SegmentsOf(Ori)[2][4] < altitude_cutoff
    /\ ~ DictHas(stick_figures, Ori)
    /\ DictHas(stick_figures, UMa)
    /\ SegmentsOf(UMa)[1][4] = altitude_cutoff

NonMatching(line) == line[1] # "#" /\ Len(line) >= 10 /\ ~ CsfMatches(line)

\* C4: a line that is no comment, has at least 10 characters and does not
\* match the pattern is skipped: nothing is raised, no record is added, and
\* the loop goes on to the next line.
C4_NonMatchingLineSkipped ==
    [][(pc = "csf" /\ ln <= Len(file) /\ NonMatching(file[ln]))
        => (pc' = "csf" /\ ln' = ln + 1
            /\ const_name' = const_name /\ const_location' = const_location)]_vars

(***************************************************************************)
(* make_sticks and make_stick_figures.  A float is a record: a finite      *)
(* value in thousandths, an infinity with its sign, or NaN; the operations *)
(* follow IEEE 754 as numpy applies it, where a division by zero gives an  *)
(* infinity or NaN and raises nothing.                                     *)
(***************************************************************************)
Fin(v) == [k |-> "fin", v |-> v]
Inf(sign) == [k |-> "inf", v |-> sign]
NaN == [k |-> "nan", v |-> 0]

Sign(v) == IF v < 0 THEN -1 ELSE 1

IsFinite(a) == a.k = "fin"

FNeg(a) == IF a.k = "nan" THEN NaN ELSE [k |-> a.k, v |-> -a.v]

FAdd(a, b) ==
    IF a.k = "nan" \/ b.k = "nan" THEN NaN
    ELSE IF a.k = "inf" /\ b.k = "inf" THEN (IF a.v = b.v THEN a ELSE NaN)
    ELSE IF a.k = "inf" THEN a
    ELSE IF b.k = "inf" THEN b
    ELSE Fin(a.v + b.v)

FSub(a, b) == FAdd(a, FNeg(b))

\* Integer division rounding toward zero.
Quot(n, d) == Sign(n) * Sign(d) * ((Sign(n) * n) \div (Sign(d) * d))

FMul(a, b) ==
    IF a.k = "nan" \/ b.k = "nan" THEN NaN
    ELSE IF a.k = "inf" /\ b.k = "inf" THEN Inf(a.v * b.v)
    ELSE IF a.k = "inf" THEN (IF b.v = 0 THEN NaN ELSE Inf(a.v * Sign(b.v)))
    ELSE IF b.k = "inf" THEN (IF a.v = 0 THEN NaN ELSE Inf(b.v * Sign(a.v)))
    ELSE Fin(Quot(a.v * b.v, 1000))

\* Division as numpy does it.  A zero divisor of make_sticks is the difference
\* of two equal numbers, +0.0.
FDiv(a, b) ==
    IF a.k = "nan" \/ b.k = "nan" THEN NaN
    ELSE IF a.k = "inf" /\ b.k = "inf" THEN NaN
    ELSE IF a.k = "inf" THEN Inf(a.v * Sign(b.v))
    ELSE IF b.k = "inf" THEN Fin(0)
    ELSE IF b.v = 0 THEN (IF a.v = 0 THEN NaN ELSE Inf(Sign(a.v)))
    ELSE Fin(Quot(a.v * 1000, b.v))

RECURSIVE ISqrtIn(_, _, _)
\* The largest k in lo..hi with k * k <= n, where lo * lo <= n.
ISqrtIn(n, lo, hi) ==
    IF lo >= hi THEN lo
    ELSE LET mid == (lo + hi + 1) \div 2
         IN  IF mid * mid <= n THEN ISqrtIn(n, mid, hi) ELSE ISqrtIn(n, lo, mid - 1)

\* np.sqrt of a value that is not negative.
FSqrt(a) ==
    IF a.k # "fin" THEN a ELSE Fin(ISqrtIn(a.v * 1000, 0, 1000 + a.v))

\* np.square
FSquare(a) == FMul(a, a)

\* cos and sin of the angles of the model, in thousandths.
CosDeg(d) == CASE d = 0 -> 1000 [] d = 45 -> 707 [] d = 60 -> 500 [] d = 90 -> 0

SinDeg(d) == CASE d = 0 -> 0 [] d = 45 -> 707 [] d = 60 -> 866 [] d = 90 -> 1000

\* sph2cart(radius, azimuth, elevation): (x, y, z), the radius in units.
sph2cart(r, azimuth, elevation) ==
    <<FMul(FMul(Fin(1000 * r), Fin(CosDeg(elevation))), Fin(CosDeg(azimuth))),
      FMul(FMul(Fin(1000 * r), Fin(CosDeg(elevation))), Fin(SinDeg(azimuth))),
      FMul(Fin(1000 * r), Fin(SinDeg(elevation)))>>

\* make_sticks(a1, e1, a2, e2, r, b) with seg = (a1, e1, a2, e2) and b a float.
make_sticks(seg, r, b) ==
    LET p1 == sph2cart(r, seg[1], seg[2])
        p2 == sph2cart(r, seg[3], seg[4])
        x1 == p1[1]
        y1 == p1[2]
        x2 == p2[1]
        y2 == p2[2]
        m == FDiv(FNeg(FSub(x2, x1)), FSub(y2, y1))
        c1 == FSub(y1, FMul(m, x1))
        c2 == FSub(y2, FMul(m, x2))
        off == FSqrt(FDiv(FSquare(b), FAdd(FSquare(m), Fin(1000))))
        x11 == FSub(x1, off)
        x12 == FAdd(x1, off)
        y11 == FAdd(FMul(m, x11), c1)
        y12 == FAdd(FMul(m, x12), c1)
        x21 == FSub(x2, off)
        x22 == FAdd(x2, off)
        y21 == FAdd(FMul(m, x21), c2)
        y22 == FAdd(FMul(m, x22), c2)
    IN  <<<<x11, y11>>, <<x12, y12>>, <<x22, y22>>, <<x21, y21>>>>

\* The breadth make_lamp_scad hands to make_stick_figures: 0.5.
Breadth == Fin(500)

RECURSIVE MsfSegments(_, _)
\* The segments make_stick_figures visits: for cname in sorted(keys), for
\* each segment of stick_figures[cname].
MsfSegments(d, names) ==
    IF names = <<>> THEN <<>>
    ELSE DictGet(d, Head(names)) \o MsfSegments(d, Tail(names))

\* The polygons make_stick_figures adds to the inscribed shell.
make_stick_figures(d, r, b) ==
    LET segs == MsfSegments(d, SortedNames(DictKeys(d)))
    IN  [i \in 1..Len(segs) |-> make_sticks(segs[i], r, b)]

(***************************************************************************)
(* Specification of make_stick_figures, one segment at a time.             *)
(***************************************************************************)
MaxSegments == 2    \* segments of one constellation

StickAngles == {<<0, 0>>, <<0, 60>>, <<45, 0>>, <<45, 60>>, <<90, 0>>, <<90, 60>>}

StickSegments == {<<p[1], p[2], q[1], q[2]>> : p \in StickAngles, q \in StickAngles}

InitSticks ==
    /\ pc = "msf"
    /\ \E so \in SeqsUpTo(StickSegments, MaxSegments) \ {<<>>}, uma \in BOOLEAN :
        stick_figures =
            (IF uma THEN <<<<UMa, <<<<0, 0, 90, 0>>>>>>>> ELSE <<>>) \o <<<<Ori, so>>>>
    /\ radius = 100
    /\ ln = 1
    /\ i_shell = <<>>
    /\ file = <<>> /\ stars = <<>> /\ keys = <<>>
    /\ magnitude = 0 /\ altitude_cutoff = 0 /\ sky = <<>> /\ bright_stars = <<>>
    /\ const_name = <<>> /\ const_location = <<>>
    /\ location = <<>> /\ disk = <<>> /\ readable = {} /\ written = <<>>
    /\ scad = <<>>

MsfUnchanged ==
    UNCHANGED <<file, stars, keys, magnitude, altitude_cutoff, radius, sky,
                bright_stars, const_name, const_location, stick_figures,
                location, disk, readable, written, scad>>

MsfVisited == MsfSegments(stick_figures, SortedNames(DictKeys(stick_figures)))

\* i_shell.add(linear_extrude(height=radius)(polygon(make_sticks(...))))
MsfAdd ==
    /\ pc = "msf" /\ ln <= Len(MsfVisited)
    /\ i_shell' = Append(i_shell, make_sticks(MsfVisited[ln], radius, Breadth))
    /\ ln' = ln + 1
    /\ UNCHANGED pc /\ MsfUnchanged

MsfReturn ==
    /\ pc = "msf" /\ ln > Len(MsfVisited)
    /\ pc' = "done"
    /\ UNCHANGED <<ln, i_shell>> /\ MsfUnchanged

NextSticks == MsfAdd \/ MsfReturn

SpecSticks == InitSticks /\ [][NextSticks]_vars

(***************************************************************************)
(* Properties of make_sticks.                                              *)
(***************************************************************************)
SameY(seg) == sph2cart(radius, seg[1], seg[2])[2] = sph2cart(radius, seg[3], seg[4])[2]

WellDefined(polygon) ==
    \A i \in 1..Len(polygon) : IsFinite(polygon[i][1]) /\ IsFinite(polygon[i][2])

\* C9: for a segment whose endpoints have the same y, the four corners added
\* to the shell are well-defined numbers, never NaN or an infinity.
C9_DegenerateSegmentHasCorners ==
    \A i \in 1..Len(i_shell) : SameY(MsfVisited[i]) => WellDefined(i_shell[i])

\* Away from that case the corners are well-defined.
C9_OtherSegmentsHaveCorners ==
    \A i \in 1..Len(i_shell) : ~ SameY(MsfVisited[i]) => WellDefined(i_shell[i])

(***************************************************************************)
(* make_lamp_scad and main                                                 *)
(***************************************************************************)
SEGMENTS == 50

\* rotate(a=[0, -1 * (90 - alt), az])(cylinder(rad, h=radius)) of each star.
StarCylinders(bs, size) ==
    [i \in 1..Len(bs) |->
        [rotate |-> <<0, -1 * (90 - bs[i][3]), bs[i][2]>>, r |-> bs[i][5], h |-> size]]

\* What make_lamp_scad renders: the header, the spheres of the two shells
\* (outer, middle, inner radius), the polygons of the stick figures and the
\* cylinders of the stars.
make_lamp_scad(bs, figures, size, thickness) ==
    [file_header |-> <<"$fn = ", SEGMENTS, ";">>,
     spheres |-> <<size, size - thickness \div 2, size - thickness>>,
     polygons |-> make_stick_figures(figures, size, Breadth),
     cylinders |-> StarCylinders(bs, size)]

\* What the loop of constellation_stick_figures does on a line.
CsfLineRaises(line) == ~ CsfSkipped(line) /\ ~ CsfMatches(line)

CsfParsed(line) == ~ CsfSkipped(line) /\ CsfMatches(line)

\* Whether the loop raises on some line of the file.
CsfRaises(lines) == \E i \in 1..Len(lines) : CsfLineRaises(lines[i])

\* const_name and const_location after the loop, when it does not raise.
CsfNames(lines) ==
    LET kept == SelectSeq(lines, CsfParsed) IN [i \in 1..Len(kept) |-> CsfName(kept[i])]

CsfLocations(lines) ==
    LET kept == SelectSeq(lines, CsfParsed)
    IN  [i \in 1..Len(kept) |-> CsfLocation(kept[i])]

\* float(obspos[0]), float(obspos[1]) and float(obspos[2]) when there are
\* more than two parts: what the construction of EarthLocation raises, or "".
LocationError(obspos) ==
    IF ~ ParseFloat(obspos[1]).ok THEN "ValueError"
    ELSE IF Len(obspos) < 2 THEN "IndexError"
    ELSE IF ~ ParseFloat(obspos[2]).ok THEN "ValueError"
    ELSE IF Len(obspos) # 2 /\ ~ ParseFloat(obspos[3]).ok THEN "ValueError"
    ELSE ""

\* The outcome of the stage that reads the catalog.
YbscOutcome(canRead) == IF "bsc5.dat" \in canRead THEN "vbs" ELSE "IOError"

\* The outcome of visible_bright_stars: the division comes before the first
\* file is opened for writing.
VbsOutcome(d, ks, threshold, canRead) ==
    IF VbsRaises(d, ks, threshold) THEN "ZeroDivisionError"
    ELSE IF "Processed-Data" \notin canRead THEN "IOError"
    ELSE "csf"

\* A line that does not match is passed over and the run goes on.
CsfOutcomeLenient(lines, canRead) ==
    IF "ConstellationStickFigures.dat" \notin canRead THEN "IOError" ELSE "scad"

\* The outcome of constellation_stick_figures.
CsfOutcome(lines, canRead) ==
    IF "ConstellationStickFigures.dat" \notin canRead THEN "IOError"
    ELSE IF CsfRaises(lines) THEN "AttributeError"
    ELSE "scad"

(***************************************************************************)
(* Specification of main.                                                  *)
(***************************************************************************)
Lat == <<"1", "2", ".", "9", "7">>
Lon == <<"7", "7", ".", "5", "9">>
Height == <<"9", "2", "6">>

Locations == {<<Lat, Lon, Height>>, <<Lat, Lon>>, <<Lat>>, <<Lat, <<"x">>>>}

MainCatalogs == {<<>>, <<Star2, Star1>>, <<Star1Again, NoMagnitude>>}

MainFigures == {<<>>, <<UMaQP, CommentLine, OriPQ>>, <<OriPQ, ThreeNumbers>>}

MainCoords ==
    {<<YbscRecord(l)[1], YbscRecord(l)[2]>> : l \in {Star1, Star2, Star1Again}}
        \cup ConstellationCoords

\* Everything up at (45, 60), or the sky turned so that the endpoints of the
\* figures lie at azimuth 0, one of them below the horizon.
MainSkies ==
    {[c \in MainCoords |-> <<45, 60>>],
     [c \in MainCoords |-> IF c[1] = 100 THEN <<0, 0>> ELSE <<0, 60>>],
     [c \in MainCoords |-> IF c[1] = 100 THEN <<90, -10>> ELSE <<0, 90>>]}

Stages == <<"location", "ybsc", "vbs", "csf", "scad", "done">>

Errors == {"ValueError", "IndexError", "IOError", "ZeroDivisionError", "AttributeError"}

OutputFile == "star-lamp.scad"

InitMain ==
    /\ pc = "location"
    /\ location \in Locations
    /\ disk \in [catalog : MainCatalogs, figures : MainFigures]
    /\ readable \in
        SUBSET {"bsc5.dat", "ConstellationStickFigures.dat", "Processed-Data"}
    /\ magnitude \in {0, 500}
    /\ altitude_cutoff = 0
    /\ radius = 100
    /\ sky \in MainSkies
    /\ file = <<>> /\ ln = 0
    /\ stars = <<>> /\ keys = <<>> /\ bright_stars = <<>>
    /\ const_name = <<>> /\ const_location = <<>> /\ stick_figures = <<>>
    /\ i_shell = <<>> /\ written = <<>> /\ scad = <<>>

MainInputs == <<file, ln, magnitude, altitude_cutoff, radius, sky, location, disk, readable>>

\* obspos = args.location.split(":"); pos = EarthLocation(...); t = Time(...)
MainLocation ==
    /\ pc = "location"
    /\ pc' = IF LocationError(location) = "" THEN "ybsc" ELSE LocationError(location)
    /\ UNCHANGED <<stars, keys, bright_stars, const_name, const_location,
                   stick_figures, i_shell, written, scad>>
    /\ UNCHANGED MainInputs

\* stars, keys = process_ybsc(abspath('./Raw-Data/bsc5.dat'))
MainProcessYbsc ==
    /\ pc = "ybsc"
    /\ pc' = YbscOutcome(readable)
    /\ IF YbscOutcome(readable) = "vbs"
       THEN /\ stars' = process_ybsc(disk.catalog).stars
            /\ keys' = process_ybsc(disk.catalog).keys
       ELSE UNCHANGED <<stars, keys>>
    /\ UNCHANGED <<bright_stars, const_name, const_location, stick_figures,
                   i_shell, written, scad>>
    /\ UNCHANGED MainInputs

\* bright_stars = visible_bright_stars(stars, keys, t, pos, args.altitude_cutoff,
\*     args.magnitude, args.size * args.radius_ratio), the ratio being 0.02
MainVisibleBrightStars ==
    /\ pc = "vbs"
    /\ pc' = VbsOutcome(stars, keys, magnitude, readable)
    /\ IF VbsOutcome(stars, keys, magnitude, readable) = "csf"
       THEN /\ bright_stars' =
                visible_bright_stars(stars, keys, sky, altitude_cutoff, magnitude,
                                     (radius * 2) \div 100)
            /\ written' = written \o <<"bright-stars-raw-data.csv", "bright-stars.csv">>
       ELSE UNCHANGED <<bright_stars, written>>
    /\ UNCHANGED <<stars, keys, const_name, const_location, stick_figures,
                   i_shell, scad>>
    /\ UNCHANGED MainInputs

\* stick_figures = constellation_stick_figures(
\*     abspath('./Raw-Data/ConstellationStickFigures.dat'), t, pos,
\*     args.altitude_cutoff)
MainConstellationStickFigures ==
    /\ pc = "csf"
    /\ pc' = CsfOutcome(disk.figures, readable)
    /\ IF CsfOutcome(disk.figures, readable) = "scad"
       THEN /\ const_name' = CsfNames(disk.figures)
            /\ const_location' = CsfLocations(disk.figures)
            /\ stick_figures' =
                CsfVisible(CsfNames(disk.figures), CsfLocations(disk.figures),
                           sky, altitude_cutoff)
            /\ written' = written \o CsfFiles
       ELSE UNCHANGED <<const_name, const_location, stick_figures, written>>
    /\ UNCHANGED <<stars, keys, bright_stars, i_shell, scad>>
    /\ UNCHANGED MainInputs

\* make_lamp_scad(abspath('./' + args.output_file), bright_stars, stick_figures,
\*     args.size, args.thickness_ratio * args.size), the ratio being 0.1
MainMakeLampScad ==
    /\ pc = "scad"
    /\ i_shell' = make_stick_figures(stick_figures, radius, Breadth)
    /\ scad' = make_lamp_scad(bright_stars, stick_figures, radius, radius \div 10)
    /\ written' = Append(written, OutputFile)
    /\ pc' = "done"
    /\ UNCHANGED <<stars, keys, bright_stars, const_name, const_location, stick_figures>>
    /\ UNCHANGED MainInputs

NextMain ==
    \/ MainLocation
    \/ MainProcessYbsc
    \/ MainVisibleBrightStars
    \/ MainConstellationStickFigures
    \/ MainMakeLampScad

SpecMain == InitMain /\ [][NextMain]_vars

(***************************************************************************)
(* Properties of main.                                                     *)
(***************************************************************************)
StageOf(p) == CHOOSE i \in 1..Len(Stages) : Stages[i] = p

TimesWritten(name) == Cardinality({i \in 1..Len(written) : written[i] = name})

\* The inputs let every stage before the rendering complete.
EveryStageCompletes ==
    /\ LocationError(location) = ""
    /\ "bsc5.dat" \in readable
    /\ ~ (magnitude = 0 /\
            \E k \in Range(process_ybsc(disk.catalog).keys) :
                DictGet(process_ybsc(disk.catalog).stars, k)[3] < 0)
    /\ "Processed-Data" \in readable
    /\ "ConstellationStickFigures.dat" \in readable
    /\ \A i \in 1..Len(disk.figures) :
        (disk.figures[i][1] # "#" /\ Len(disk.figures[i]) >= 10)
            => CsfMatches(disk.figures[i])

\* C10: the stages run once each, in their order, and a stage that fails
\* ends the run and writes nothing; the output file is written at most once,
\* as the last file of the run, by the step that ends the run, and only when
\* every earlier stage has completed without error.
C10_OneShotPipeline ==
    [][/\ pc \notin Errors /\ pc # "done"
       /\ pc' \in Errors \/ StageOf(pc') = StageOf(pc) + 1
       /\ pc' \in Errors => (written' = written /\ scad' = <<>>)
       /\ TimesWritten(OutputFile) = 0
       /\ pc' # "done" => OutputFile \notin Range(written')
       /\ pc' = "done" =>
            /\ EveryStageCompletes
            /\ Len(written') = 6 /\ written'[6] = OutputFile
            /\ OutputFile \notin Range(SubSeq(written', 1, 5))]_vars

C10_Witness ==
    /\ pc = "done"
    /\ written[6] = OutputFile
    /\ Len(scad.polygons) = 2 /\ Len(scad.cylinders) = 2

====
